---- MODULE Spec2Model ----
(***************************************************************************)
(* Model of openstack_dashboard/usage/base.py: the BaseUsage object (date  *)
(* range resolution, limits, quotas, summarize), ProjectUsage's usage      *)
(* filter and the two CSV responses.                                       *)
(*                                                                         *)
(* Python values are encoded as tuples so that values of different kinds   *)
(* can be compared: None / a missing attribute is <<>>, a datetime.date is *)
(* <<y, m, d>>, a datetime.datetime is <<y, m, d, h, mi, s>>.              *)
(* Every method call is one atomic action; the clock (timezone.now) is     *)
(* read once per call and may advance between calls.                       *)
(***************************************************************************)
EXTENDS Integers, Sequences, FiniteSets, TLC

VARIABLES
    now,          \* timezone.now(): <<y, m, d, h, mi, s>>, UTC
    ticks,        \* number of clock advances so far (bounds the clock)
    request_GET,  \* [start |-> raw text or <<>>, end |-> ..., show_terminated |-> ...]
    attrs,        \* the attributes 'start' and 'end' of the object (set lazily)
    form,         \* the attribute 'form' of the object (set lazily)
    usage_list,   \* self.usage_list
    summary,      \* self.summary
    limits,       \* self.limits
    quotas,       \* self.quotas
    call,         \* the last call: operation, inputs, return value, messages
    hist,         \* first/last results of get_date_range and csv_link
    csv           \* the CSV responses (BaseCsvResponse, BaseCsvStreamingResponse)

vars == <<now, ticks, request_GET, attrs, form, usage_list, summary, limits,
          quotas, call, hist, csv>>

None == <<>>

\* an empty dict
EmptyDict == [k \in {} |-> 0]

-----------------------------------------------------------------------------
(* Bounds of the model *)

BaseYear == 2011
NumYears == 2
MaxTicks == 2
MaxLen == 2
MaxSum == 4

-----------------------------------------------------------------------------
(* The proleptic Gregorian calendar of datetime.date *)

Years == (BaseYear - 1) .. (BaseYear + NumYears - 1)

IsLeap(y) == (y % 4 = 0) /\ ((y % 100 # 0) \/ (y % 400 = 0))

DaysInMonth(y, m) ==
    IF m = 2 THEN (IF IsLeap(y) THEN 29 ELSE 28)
    ELSE IF m \in {4, 6, 9, 11} THEN 30 ELSE 31

DaysInYear(y) == IF IsLeap(y) THEN 366 ELSE 365

IsDate(t) ==
    /\ Len(t) = 3
    /\ t[1] \in Years
    /\ t[2] \in 1..12
    /\ t[3] \in 1..DaysInMonth(t[1], t[2])

RECURSIVE DaysBeforeMonth(_, _)
DaysBeforeMonth(y, m) ==
    IF m = 1 THEN 0 ELSE DaysBeforeMonth(y, m - 1) + DaysInMonth(y, m - 1)

RECURSIVE DaysBeforeYear(_)
DaysBeforeYear(y) ==
    IF y <= BaseYear - 1 THEN 0 ELSE DaysBeforeYear(y - 1) + DaysInYear(y - 1)

\* date.toordinal(), counted from 1 January of the year before BaseYear
ToOrdinal(d) == DaysBeforeYear(d[1]) + DaysBeforeMonth(d[1], d[2]) + d[3]

RECURSIVE OrdYear(_, _)
OrdYear(n, y) == IF n <= DaysInYear(y) THEN <<y, n>> ELSE OrdYear(n - DaysInYear(y), y + 1)

RECURSIVE OrdMonth(_, _, _)
OrdMonth(y, n, m) ==
    IF n <= DaysInMonth(y, m) THEN <<y, m, n>> ELSE OrdMonth(y, n - DaysInMonth(y, m), m + 1)

\* date.fromordinal()
FromOrdinal(n) == LET yn == OrdYear(n, BaseYear - 1) IN OrdMonth(yn[1], yn[2], 1)

\* date - datetime.timedelta(days=k)
MinusDays(d, k) == FromOrdinal(ToOrdinal(d) - k)

PlusDays(d, k) == FromOrdinal(ToOrdinal(d) + k)

DateOf(dt) == <<dt[1], dt[2], dt[3]>>

At(d, h, mi, s) == <<d[1], d[2], d[3], h, mi, s>>

\* lexicographic order of two tuples of integers of the same length
RECURSIVE TupleLe(_, _, _)
TupleLe(a, b, i) ==
    IF i > Len(a) THEN TRUE
    ELSE IF a[i] < b[i] THEN TRUE
    ELSE IF a[i] > b[i] THEN FALSE
    ELSE TupleLe(a, b, i + 1)

Le(a, b) == TupleLe(a, b, 1)

Lt(a, b) == Le(a, b) /\ a # b

AllDates == {t \in ((BaseYear .. (BaseYear + NumYears - 1)) \X (1..12) \X (1..31)) : IsDate(t)}

-----------------------------------------------------------------------------
(* Values shared by the operations *)

\* the inputs, return value and messages of a call
Call(op, today, args, pre, ret, raised, msgs, handled) ==
    [op |-> op, today |-> today, args |-> args, pre |-> pre, ret |-> ret,
     raised |-> raised, msgs |-> msgs, handled |-> handled]

NoCall == Call("new", None, None, None, None, FALSE, <<>>, <<>>)

\* the object has no attribute 'start', 'end' before a method sets them
NoAttrs == [has_start |-> FALSE, has_end |-> FALSE, start |-> None, end |-> None]

\* the object has no attribute 'form' before get_form sets it
NoForm == [exists |-> FALSE, is_bound |-> FALSE, data |-> None,
           initial |-> None, has_cleaned |-> FALSE, cleaned |-> EmptyDict]

NoHist == [first_range |-> None, last_range |-> None, last_link |-> None]

NoCsv == [phase |-> "none"]

TimesOfDay == {<<0, 0, 0>>, <<23, 59, 59>>}

\* raw text of a date parameter: <<>> the key is absent, <<-1>> text that is
\* not of the shape Y-M-D, <<y, m, d>> the numbers typed as Y-M-D
ParamVals ==
    {None, <<-1>>, <<BaseYear + 1, 2, 30>>, <<BaseYear, 12, 25>>, <<BaseYear + 1, 1, 4>>}

ClockStart == <<BaseYear + 1, 1, 3>>

-----------------------------------------------------------------------------
(* BaseUsage: date range resolution *)

get_start(d) == <<d[1], d[2], d[3], 0, 0, 0>>

\* get_end with the time of get_start
get_end_m(d) == <<d[1], d[2], d[3], 0, 0, 0>>

get_end(d) == <<d[1], d[2], d[3], 23, 59, 59>>

\* init_form with the test today.day in range(6)
init_form_m(today) ==
    LET first == <<today[1], today[2], 1>> IN
    IF today[3] \in 0..5
    THEN LET e == MinusDays(first, 1) IN << <<e[1], e[2], 1>>, e >>
    ELSE <<first, today>>

\* init_form: the range shown in an unbound form
init_form(today) ==
    LET first == <<today[1], today[2], 1>> IN
    IF today[3] \in 0..4
    THEN LET e == MinusDays(first, 1) IN << <<e[1], e[2], 1>>, e >>
    ELSE <<first, today>>

\* forms.DateForm(data): two required DateFields read with "%Y-%m-%d";
\* cleaned_data holds the fields that parsed
CleanedData(data) ==
    [k \in {k \in {"start", "end"} : IsDate(data[k])} |-> data[k]]

\* form.is_valid() on a form: bound, and every field parsed
FormIsValid(f) == f.is_bound /\ DOMAIN CleanedData(f.data) = {"start", "end"}

\* the form after is_valid() ran its validation (cleaned_data exists for a
\* bound form only)
Validated(f) ==
    IF f.is_bound
    THEN [f EXCEPT !.has_cleaned = TRUE, !.cleaned = CleanedData(f.data)]
    ELSE f

IsBoundRequest(get) == \E k \in {"start", "end"} : get[k] # None

\* get_form: <<attrs, form>> after the call
get_form(a, f, get, today) ==
    IF f.exists THEN <<a, f>>
    ELSE IF IsBoundRequest(get)
    THEN <<a, [NoForm EXCEPT !.exists = TRUE, !.is_bound = TRUE,
                              !.data = [k \in {"start", "end"} |-> get[k]]]>>
    ELSE LET init == init_form(today) IN
         <<[has_start |-> TRUE, has_end |-> TRUE, start |-> init[1], end |-> init[2]],
           [NoForm EXCEPT !.exists = TRUE, !.initial = init]>>

\* the local names args_start, args_end are bound only inside the if of
\* get_date_range
ArgsBound(a) == ~a.has_start \/ ~a.has_end

\* get_date_range: [attrs, form, ret, raised, msgs] after the call
get_date_range(a, f, get, today) ==
    IF ArgsBound(a)
    THEN LET gf == get_form(a, f, get, today)
             fm == Validated(gf[2])
             valid == FormIsValid(gf[2])
             args_start == IF valid THEN fm.cleaned["start"] ELSE today
             args_end == IF valid THEN fm.cleaned["end"] ELSE today
             s == get_start(args_start)
             e == get_end(args_end)
         IN [attrs |-> [has_start |-> TRUE, has_end |-> TRUE, start |-> s, end |-> e],
             form |-> fm,
             ret |-> <<s, e>>,
             raised |-> FALSE,
             msgs |-> IF ~valid /\ fm.is_bound THEN <<"invalid_date_format">> ELSE <<>>]
    ELSE \* UnboundLocalError: args_start is referenced before assignment
         [attrs |-> a, form |-> f, ret |-> None, raised |-> TRUE, msgs |-> <<>>]

\* csv_link: [attrs, form, ret]; ret is the pair of dates in the link
csv_link(a, f, get, today) ==
    LET gf == get_form(a, f, get, today)
        fm == gf[2]
        data == IF fm.has_cleaned THEN fm.cleaned ELSE EmptyDict
        both == "start" \in DOMAIN data /\ "end" \in DOMAIN data
    IN [attrs |-> gf[1], form |-> fm,
        ret |-> IF both THEN <<data["start"], data["end"]>> ELSE <<today, today>>]

-----------------------------------------------------------------------------
(* The clock, and the calls of the date range methods on one object *)

\* BaseUsage.__init__: no start, end or form; empty summary, lists and dicts
FreshObject ==
    /\ attrs = NoAttrs
    /\ form = NoForm
    /\ usage_list = <<>>
    /\ summary = EmptyDict
    /\ limits = EmptyDict
    /\ quotas = EmptyDict
    /\ call = NoCall
    /\ hist = NoHist

Tick ==
    /\ ticks < MaxTicks
    /\ LET d == PlusDays(DateOf(now), 1) IN now' = <<d[1], d[2], d[3], now[4], now[5], now[6]>>
    /\ ticks' = ticks + 1
    /\ UNCHANGED <<request_GET, attrs, form, usage_list, summary, limits, quotas,
                   call, hist, csv>>

GetDateRange ==
    \E r \in {get_date_range(attrs, form, request_GET, DateOf(now))} :
    /\ attrs' = r.attrs
    /\ form' = r.form
    /\ call' = Call("get_date_range", now, None, [attrs |-> attrs, form |-> form],
                    r.ret, r.raised, r.msgs, <<>>)
    /\ hist' = IF r.raised THEN hist
               ELSE [hist EXCEPT !.first_range = IF @ = None THEN r.ret ELSE @,
                                 !.last_range = r.ret]
    /\ UNCHANGED <<now, ticks, request_GET, usage_list, summary, limits, quotas, csv>>

InitForm ==
    \E r \in {init_form(DateOf(now))} :
    /\ attrs' = [has_start |-> TRUE, has_end |-> TRUE, start |-> r[1], end |-> r[2]]
    /\ call' = Call("init_form", now, None, [attrs |-> attrs, form |-> form],
                    r, FALSE, <<>>, <<>>)
    /\ UNCHANGED <<now, ticks, request_GET, form, usage_list, summary, limits, quotas,
                   hist, csv>>

GetForm ==
    \E r \in {get_form(attrs, form, request_GET, DateOf(now))} :
    /\ attrs' = r[1]
    /\ form' = r[2]
    /\ call' = Call("get_form", now, None, [attrs |-> attrs, form |-> form],
                    None, FALSE, <<>>, <<>>)
    /\ UNCHANGED <<now, ticks, request_GET, usage_list, summary, limits, quotas,
                   hist, csv>>

CsvLink ==
    \E r \in {csv_link(attrs, form, request_GET, DateOf(now))} :
    /\ attrs' = r.attrs
    /\ form' = r.form
    /\ call' = Call("csv_link", now, None, [attrs |-> attrs, form |-> form],
                    r.ret, FALSE, <<>>, <<>>)
    /\ hist' = [hist EXCEPT !.last_link = r.ret]
    /\ UNCHANGED <<now, ticks, request_GET, usage_list, summary, limits, quotas, csv>>

Init ==
    /\ \E t \in TimesOfDay :
         now = <<ClockStart[1], ClockStart[2], ClockStart[3], t[1], t[2], t[3]>>
    /\ ticks = 0
    /\ request_GET \in [start : ParamVals, end : ParamVals, show_terminated : {None}]
    /\ FreshObject
    /\ csv = NoCsv

Next == Tick \/ GetDateRange \/ InitForm \/ GetForm \/ CsvLink

Spec == Init /\ [][Next]_vars

\* init_form on every calendar date
InitCalendar ==
    /\ \E d \in AllDates : \E t \in TimesOfDay :
         now = <<d[1], d[2], d[3], t[1], t[2], t[3]>>
    /\ ticks = 0
    /\ request_GET = [start |-> None, end |-> None, show_terminated |-> None]
    /\ FreshObject
    /\ csv = NoCsv

NextCalendar == InitForm

SpecCalendar == InitCalendar /\ [][NextCalendar]_vars

-----------------------------------------------------------------------------
(* BaseUsage: limits, quotas and summarize *)

\* a number, and float("inf")
Num(n) == <<"num", n>>

Inf == <<"inf", 0>>

\* d[k] = v on a dict
Put(d, k, v) == [x \in (DOMAIN d) \cup {k} |-> IF x = k THEN v ELSE d[x]]

\* the outcome of a call of an external API: it raises, or returns a value
\* (value is read only when the call returned; d is an empty value of its kind)
Raises(d) == [status |-> "raises", raises |-> TRUE, value |-> d]

Returns(v) == [status |-> "returns", raises |-> FALSE, value |-> v]


\* exceptions.handle(request, msg): the error is reported as one message and
\* the call returns
handle(handled, msg) == Append(handled, msg)

UsageLimitName(resource_name) ==
    IF resource_name = "floatingip" THEN "totalFloatingIpsUsed" ELSE "totalSecurityGroupsUsed"

UsageMessage(resource_name) ==
    IF resource_name = "floatingip" THEN "floating_ip_addresses" ELSE "security_groups"

\* _get_neutron_usage: list is the outcome of the resource's list API
get_neutron_usage(st, resource_name, list) ==
    [limits |-> Put(st.limits, UsageLimitName(resource_name),
                    IF list.raises THEN Num(0) ELSE Num(Len(list.value))),
     handled |-> IF list.raises THEN handle(st.handled, UsageMessage(resource_name))
                 ELSE st.handled]

MaxLimitName(resource_name) ==
    IF resource_name = "floatingip" THEN "maxTotalFloatingIps" ELSE "maxSecurityGroups"

\* a quota set of Neutron: [none |-> TRUE] is None, items maps a resource to
\* the limit of its quota
NoQuotaSet == [none |-> TRUE, items |-> EmptyDict]

QuotaSet(items) == [none |-> FALSE, items |-> items]

\* neutron_quotas.get(resource_name): the quota <<limit>> of the resource, or
\* None when the set has no quota of that name
QuotaGet(neutron_quotas, resource_name) ==
    IF resource_name \in DOMAIN neutron_quotas.items
    THEN <<neutron_quotas.items[resource_name]>>
    ELSE None

\* _set_neutron_limit without the test for -1
set_neutron_limit_m(lim, neutron_quotas, resource_name) ==
    LET resource_max ==
            IF neutron_quotas.none THEN Inf
            ELSE LET q == QuotaGet(neutron_quotas, resource_name)
                 IN IF q = None THEN Inf ELSE Num(q[1])
    IN Put(lim, MaxLimitName(resource_name), resource_max)

\* _set_neutron_limit
set_neutron_limit(lim, neutron_quotas, resource_name) ==
    LET resource_max ==
            IF neutron_quotas.none THEN Inf
            ELSE LET q == QuotaGet(neutron_quotas, resource_name)
                     m == IF q = None THEN Inf ELSE Num(q[1])
                 IN IF m = Num(-1) THEN Inf ELSE m
    IN Put(lim, MaxLimitName(resource_name), resource_max)

\* get_neutron_limits: st is [limits, handled]; env holds what the network
\* service answers: network, sg, quotas_ext (booleans), fips, sgs, quota
\* (outcomes of the API calls)
get_neutron_limits(st, env) ==
    IF ~env.network THEN st
    ELSE LET u1 == get_neutron_usage(st, "floatingip", env.fips)
             u2 == IF env.sg THEN get_neutron_usage(u1, "security_group", env.sgs) ELSE u1
             failed == env.quotas_ext /\ env.quota.raises
             neutron_quotas == IF env.quotas_ext /\ ~env.quota.raises
                               THEN env.quota.value ELSE NoQuotaSet
             h == IF failed THEN handle(u2.handled, "network_quota_information")
                  ELSE u2.handled
             l1 == set_neutron_limit(u2.limits, neutron_quotas, "floatingip")
             l2 == IF env.sg THEN set_neutron_limit(l1, neutron_quotas, "security_group")
                   ELSE l1
         IN [limits |-> l2, handled |-> h]

\* the try/except of get_limits with the limits reset on a failure
nova_limits_m(lim, nova) ==
    IF nova.raises
    THEN [limits |-> EmptyDict, handled |-> handle(<<>>, "limit_information")]
    ELSE [limits |-> nova.value, handled |-> <<>>]

\* the try/except of get_limits
nova_limits(lim, nova) ==
    IF nova.raises
    THEN [limits |-> lim, handled |-> handle(<<>>, "limit_information")]
    ELSE [limits |-> nova.value, handled |-> <<>>]

\* get_limits
get_limits(lim, nova, env) == get_neutron_limits(nova_limits(lim, nova), env)

\* get_quotas
get_quotas(q, api) ==
    IF api.raises
    THEN [quotas |-> q, handled |-> handle(<<>>, "quota_information")]
    ELSE [quotas |-> api.value, handled |-> <<>>]

\* the guard of summarize with start < self.today
CanFetch_m(start, end, today) == Le(start, end) /\ Lt(start, today)

\* the guard of summarize
CanFetch(start, end, today) == Le(start, end) /\ Le(start, today)

\* timezone.make_naive(value, timezone.utc) of a UTC datetime: the same
\* fields, without the time zone
make_naive(dt) == dt

\* summary after adding one record's get_summary()
AddSummary(sm, rec) ==
    [k \in (DOMAIN sm) \cup (DOMAIN rec) |->
        (IF k \in DOMAIN sm THEN sm[k] ELSE 0) + (IF k \in DOMAIN rec THEN rec[k] ELSE 0)]

\* the loop of summarize over self.usage_list
RECURSIVE Aggregate(_, _)
Aggregate(sm, ul) ==
    IF ul = <<>> THEN sm ELSE Aggregate(AddSummary(sm, Head(ul)), Tail(ul))

\* summarize: api is the outcome of get_usage_list
summarize(ul, sm, start, end, today, api) ==
    LET fetch == CanFetch(start, end, today)
        ul2 == IF fetch /\ ~api.raises THEN api.value ELSE ul
    IN [usage_list |-> ul2,
        summary |-> Aggregate(sm, ul2),
        fetched |-> IF fetch THEN << <<make_naive(start), make_naive(end)>> >> ELSE <<>>,
        handled |-> IF fetch /\ api.raises THEN handle(<<>>, "usage_information") ELSE <<>>,
        msgs |-> IF fetch THEN <<>>
                 ELSE IF Lt(end, start) THEN <<"end_before_start">>
                 ELSE IF Lt(today, start) THEN <<"future">>
                 ELSE <<>>]

-----------------------------------------------------------------------------
(* What the external services answer, and the calls of limits, quotas and  *)
(* summarize on one object                                                 *)

\* an API that a call does not reach has no outcome
NotCalled(d) == [status |-> "not_called", raises |-> FALSE, value |-> d]

Resources == {"floatingip", "security_group"}

QuotaLimits == {-1, 5}

QuotaSets == {QuotaSet(f) : f \in UNION {[r -> QuotaLimits] : r \in SUBSET Resources}}

NeutronEnvs ==
    {[network |-> FALSE, sg |-> FALSE, quotas_ext |-> FALSE,
      fips |-> NotCalled(<<>>), sgs |-> NotCalled(<<>>), quota |-> NotCalled(NoQuotaSet)]}
    \cup
    {[network |-> TRUE, sg |-> sg, quotas_ext |-> ext, fips |-> f, sgs |-> g, quota |-> q] :
        sg \in BOOLEAN, ext \in BOOLEAN,
        f \in {Raises(<<>>), Returns(<<"10.0.0.1">>)},
        g \in {Raises(<<>>), Returns(<<"default", "web">>), NotCalled(<<>>)},
        q \in {Raises(NoQuotaSet), NotCalled(NoQuotaSet)} \cup {Returns(x) : x \in QuotaSets}}

\* the outcomes are those of the calls the code makes
EnvConsistent(env) ==
    /\ (env.sgs.status = "not_called") <=> ~env.sg
    /\ (env.quota.status = "not_called") <=> ~env.quotas_ext

NovaLimits ==
    {("maxTotalInstances" :> Num(10)),
     ("maxTotalInstances" :> Num(10)) @@ ("maxTotalFloatingIps" :> Num(10))}

TenantQuotas == {("instances" :> Num(10)), ("instances" :> Num(20))}

\* the get_summary() of the usage records the API may return
UsageRecords == {("instances" :> 1), ("instances" :> 1) @@ ("vcpus" :> 2)}

UsageLists == UNION {[1..n -> UsageRecords] : n \in 0..MaxLen}

SummarizeDays == {ClockStart, PlusDays(ClockStart, 1)}

SummarizeTimes == {At(d, t[1], t[2], t[3]) : d \in SummarizeDays, t \in TimesOfDay}

\* the cap that keeps the sums of the model finite
WithinCap(sm) == \A k \in DOMAIN sm : sm[k] <= MaxSum

\* the calls, with the answers of the services drawn from the given sets
GetNeutronLimitsOn(envs) ==
    \E env \in envs :
        /\ EnvConsistent(env)
        /\ \E r \in {get_neutron_limits([limits |-> limits, handled |-> <<>>], env)} :
           /\ limits' = r.limits
           /\ call' = Call("get_neutron_limits", now, [env |-> env], None, None, FALSE,
                           <<>>, r.handled)
        /\ UNCHANGED <<now, ticks, request_GET, attrs, form, usage_list, summary, quotas,
                       hist, csv>>

GetLimitsOn(envs) ==
    \E env \in envs, nova \in {Raises(EmptyDict)} \cup {Returns(l) : l \in NovaLimits} :
        /\ EnvConsistent(env)
        /\ \E r \in {get_limits(limits, nova, env)} :
           /\ limits' = r.limits
           /\ call' = Call("get_limits", now, [env |-> env, api |-> nova], None, None,
                           FALSE, <<>>, r.handled)
        /\ UNCHANGED <<now, ticks, request_GET, attrs, form, usage_list, summary, quotas,
                       hist, csv>>

GetQuotas ==
    \E api \in {Raises(EmptyDict)} \cup {Returns(q) : q \in TenantQuotas} :
        /\ \E r \in {get_quotas(quotas, api)} :
           /\ quotas' = r.quotas
           /\ call' = Call("get_quotas", now, [api |-> api], None, None, FALSE, <<>>,
                           r.handled)
        /\ UNCHANGED <<now, ticks, request_GET, attrs, form, usage_list, summary, limits,
                       hist, csv>>

SummarizeOn(times, lists) ==
    \E start \in times, end \in times, api \in {Raises(<<>>)} \cup {Returns(l) : l \in lists} :
        \E r \in {summarize(usage_list, summary, start, end, now, api)} :
        /\ WithinCap(r.summary)
        /\ usage_list' = r.usage_list
        /\ summary' = r.summary
        /\ call' = Call("summarize", now, [start |-> start, end |-> end, api |-> api],
                        None, r.fetched, FALSE, r.msgs, r.handled)
        /\ UNCHANGED <<now, ticks, request_GET, attrs, form, limits, quotas, hist, csv>>

InitUsage ==
    /\ \E t \in TimesOfDay :
         now = <<ClockStart[1], ClockStart[2], ClockStart[3], t[1], t[2], t[3]>>
    /\ ticks = 0
    /\ request_GET = [start |-> None, end |-> None, show_terminated |-> None]
    /\ FreshObject
    /\ csv = NoCsv

\* summarize with every range and every usage list
Summarize == SummarizeOn(SummarizeTimes, UsageLists)

NextSummarize == Summarize

SpecSummarize == InitUsage /\ [][NextSummarize]_vars

\* the limits and quotas with every answer of the network service
GetNeutronLimits == GetNeutronLimitsOn(NeutronEnvs)

GetLimits == GetLimitsOn(NeutronEnvs)

NextLimits == GetLimits \/ GetNeutronLimits \/ GetQuotas

SpecLimits == InitUsage /\ [][NextLimits]_vars

\* the three operations that catch a failure of their external call, on one
\* object: a network service without and with quotas, ranges that fetch and
\* a range that does not, usage lists of at most one record
IsSomeEnv(env) ==
    /\ env.quotas_ext => (env.quota.raises \/ DOMAIN env.quota.value.items = Resources)
    /\ ~env.fips.raises /\ ~env.sgs.raises
    /\ env.sg = env.quotas_ext

SomeEnvs == {env \in NeutronEnvs : IsSomeEnv(env)}

SomeTimes == {At(ClockStart, 0, 0, 0), At(PlusDays(ClockStart, 1), 23, 59, 59)}

SomeLists == {l \in UsageLists : Len(l) <= 1}

GetLimitsSome == GetLimitsOn(SomeEnvs)

SummarizeSome == SummarizeOn(SomeTimes, SomeLists)

NextErrors == GetLimitsSome \/ GetQuotas \/ SummarizeSome

SpecErrors == InitUsage /\ [][NextErrors]_vars

-----------------------------------------------------------------------------
(* ProjectUsage.get_usage_list *)

\* dt - datetime.timedelta(seconds=secs)
MinusSeconds(dt, secs) ==
    LET total == ToOrdinal(DateOf(dt)) * 86400 + dt[4] * 3600 + dt[5] * 60 + dt[6] - secs
        r == total % 86400
    IN At(FromOrdinal(total \div 86400), r \div 3600, (r % 3600) \div 60, r % 60)

\* request.GET.get('show_terminated', self.show_terminated): the text of the
\* parameter <<text>>, or the class attribute (False) when the key is absent
ShowTerminated(get) ==
    IF get.show_terminated = None THEN FALSE ELSE get.show_terminated[1] # ""

\* the test on ended_at alone
Keeps_m(server_usage, show_terminated) == server_usage.ended_at = None

\* the test that sends a record to instances
Keeps(server_usage, show_terminated) ==
    ~(server_usage.ended_at # None /\ ~show_terminated)

WithUptimeAt(server_usage, today) ==
    [id |-> server_usage.id, ended_at |-> server_usage.ended_at,
     uptime |-> server_usage.uptime, has_uptime_at |-> TRUE,
     uptime_at |-> MinusSeconds(today, server_usage.uptime)]

\* the loop over usage.server_usages: the list instances
RECURSIVE Instances(_, _, _)
Instances(server_usages, show_terminated, today) ==
    IF server_usages = <<>> THEN <<>>
    ELSE LET su == WithUptimeAt(Head(server_usages), today)
             rest == Instances(Tail(server_usages), show_terminated, today)
         IN IF Keeps(su, show_terminated) THEN <<su>> \o rest ELSE rest

\* get_usage_list: usage is what api.nova.usage_get returned
get_usage_list(get, usage, today) ==
    << [has_server_usages |-> TRUE,
        server_usages |-> IF usage.has_server_usages
                          THEN Instances(usage.server_usages, ShowTerminated(get), today)
                          ELSE <<>>] >>

ServerUsageKinds ==
    [ended_at : {None, At(ClockStart, 12, 0, 0)}, uptime : {0, 3600}]

\* the server usages of a usage: record i is the i-th the API returned
ServerUsageLists ==
    UNION {{[i \in 1..n |-> [id |-> i, ended_at |-> f[i].ended_at, uptime |-> f[i].uptime,
                             has_uptime_at |-> FALSE, uptime_at |-> None]] :
              f \in [1..n -> ServerUsageKinds]} : n \in 0..MaxLen}

ApiUsages ==
    {[has_server_usages |-> FALSE, server_usages |-> <<>>]}
    \cup {[has_server_usages |-> TRUE, server_usages |-> l] : l \in ServerUsageLists}

GetUsageList ==
    \E usage \in ApiUsages :
        /\ call' = Call("get_usage_list", now, [usage |-> usage], None,
                        get_usage_list(request_GET, usage, now), FALSE, <<>>, <<>>)
        /\ UNCHANGED <<now, ticks, request_GET, attrs, form, usage_list, summary, limits,
                       quotas, hist, csv>>

InitProject ==
    /\ \E t \in TimesOfDay :
         now = <<ClockStart[1], ClockStart[2], ClockStart[3], t[1], t[2], t[3]>>
    /\ ticks = 0
    /\ request_GET \in [start : {None}, end : {None},
                        show_terminated : {None, <<"">>, <<"true">>, <<"False">>}]
    /\ FreshObject
    /\ csv = NoCsv

NextProject == GetUsageList

SpecProject == InitProject /\ [][NextProject]_vars

-----------------------------------------------------------------------------
(* CsvDataMixin, BaseCsvResponse and BaseCsvStreamingResponse               *)
(* Output is a sequence of pieces of text: a cell, "," or the line end.     *)

MaxRows == 2

\* a value of a row: <<"int", n>> or <<"str", text>>
CsvValues == {<<"int", 7>>, <<"str", "a">>}

Digits == <<"0", "1", "2", "3", "4", "5", "6", "7", "8", "9">>

\* encode: unicode(value).encode('utf-8')
encode(value) == IF value[1] = "int" THEN Digits[value[2] + 1] ELSE value[2]

EncodeAll(vals) == [i \in 1..Len(vals) |-> encode(vals[i])]

\* StringIO(): the text and the position
NewStringIO == [buf |-> <<>>, pos |-> 0]

\* StringIO.write(pieces) at the position (the gap is filled when the position
\* is past the end)
Write(out, pieces) ==
    LET gap == [i \in 1..(out.pos - Len(out.buf)) |-> "\\0"]
        before == SubSeq(out.buf \o gap, 1, out.pos)
        after == SubSeq(out.buf, out.pos + Len(pieces) + 1, Len(out.buf))
    IN [buf |-> before \o pieces \o after, pos |-> out.pos + Len(pieces)]

\* StringIO.truncate(size)
Truncate(out, size) ==
    [buf |-> SubSeq(out.buf, 1, size), pos |-> IF size < out.pos THEN size ELSE out.pos]

\* writer.writerow: the cells separated by commas, then the line end
RECURSIVE Joined(_)
Joined(cells) ==
    IF cells = <<>> THEN <<>>
    ELSE IF Len(cells) = 1 THEN cells
    ELSE <<Head(cells), ",">> \o Joined(Tail(cells))

RowLine(cells) == Joined(cells) \o <<"\r\n">>

\* dict(zip(fieldnames, cells))[name] with DictWriter's restval '' for a name
\* the dict does not have: the last cell zipped with the name
Zipped(fieldnames, cells, name) ==
    LET at == {i \in 1..Len(fieldnames) : i <= Len(cells) /\ fieldnames[i] = name} IN
    IF at = {} THEN "" ELSE cells[CHOOSE i \in at : \A j \in at : j <= i]

\* write_csv_header
write_csv_header(out, r) ==
    IF r.is_dict THEN Write(out, RowLine(EncodeAll(r.columns))) ELSE out

\* write_csv_row
write_csv_row(out, r, args) ==
    IF r.is_dict
    THEN LET fieldnames == EncodeAll(r.columns) IN
         Write(out, RowLine([i \in 1..Len(fieldnames) |->
                                Zipped(fieldnames, EncodeAll(args), fieldnames[i])]))
    ELSE Write(out, RowLine(EncodeAll(args)))

\* if self.header: self.out.write(self.encode(self.header))
write_header(out, r) ==
    IF r.header # None /\ r.header[1] # "" THEN Write(out, <<encode(<<"str", r.header[1]>>)>>) ELSE out

RECURSIVE write_rows(_, _, _)
write_rows(out, r, rows) ==
    IF rows = <<>> THEN out
    ELSE write_rows(write_csv_row(out, r, Head(rows)), r, Tail(rows))

\* BaseCsvResponse.__init__: self.content
csv_content(r) ==
    write_rows(write_csv_header(write_header(NewStringIO, r), r), r, r.rows).buf

\* buffer without the truncate
buffer_m(out) == <<out.buf, out>>

\* BaseCsvStreamingResponse.buffer: <<the text taken, the stream after>>
buffer(out) == <<out.buf, Truncate(out, 0)>>

\* the inputs of a response: the rendered header <<text>> (None without a
\* template), the columns (is_dict is hasattr(self, "columns")) and the rows
\* get_row_data yields
CsvInputs ==
    {[header |-> h, is_dict |-> c[1], columns |-> c[2], rows |-> rows] :
        h \in {None, <<"">>, <<"Usage Report\n">>},
        c \in {<<FALSE, <<>> >>,
               <<TRUE, << <<"str", "id">> >> >>,
               <<TRUE, << <<"str", "id">>, <<"str", "name">> >> >>},
        rows \in UNION {[1..n -> UNION {[1..w -> CsvValues] : w \in 1..2}] : n \in 0..MaxRows}}

InitCsv ==
    /\ now = At(ClockStart, 0, 0, 0)
    /\ ticks = 0
    /\ request_GET = [start |-> None, end |-> None, show_terminated |-> None]
    /\ FreshObject
    /\ \E r \in CsvInputs :
         csv = [phase |-> "new", inputs |-> r, built |-> FALSE, content |-> <<>>,
                out |-> NewStringIO, stream |-> "created", next_row |-> 1,
                chunks |-> <<>>]

\* BaseCsvResponse(request, template, context, content_type)
BuildCsvResponse ==
    /\ csv.phase # "none" /\ ~csv.built
    /\ csv' = [csv EXCEPT !.built = TRUE, !.content = csv_content(csv.inputs)]
    /\ UNCHANGED <<now, ticks, request_GET, attrs, form, usage_list, summary, limits,
                   quotas, call, hist>>

\* the first next() of get_content: header and column titles, then a chunk
StreamStart ==
    /\ csv.phase # "none" /\ csv.stream = "created"
    /\ LET b == buffer(write_csv_header(write_header(csv.out, csv.inputs), csv.inputs)) IN
       csv' = [csv EXCEPT !.stream = "rows", !.chunks = Append(@, b[1]), !.out = b[2]]
    /\ UNCHANGED <<now, ticks, request_GET, attrs, form, usage_list, summary, limits,
                   quotas, call, hist>>

\* a later next() of get_content: one row, then a chunk
StreamRow ==
    /\ csv.phase # "none" /\ csv.stream = "rows"
    /\ csv.next_row <= Len(csv.inputs.rows)
    /\ LET b == buffer(write_csv_row(csv.out, csv.inputs, csv.inputs.rows[csv.next_row])) IN
       csv' = [csv EXCEPT !.next_row = @ + 1, !.chunks = Append(@, b[1]), !.out = b[2]]
    /\ UNCHANGED <<now, ticks, request_GET, attrs, form, usage_list, summary, limits,
                   quotas, call, hist>>

\* the last next() of get_content: get_row_data is exhausted
StreamEnd ==
    /\ csv.phase # "none" /\ csv.stream = "rows"
    /\ csv.next_row > Len(csv.inputs.rows)
    /\ csv' = [csv EXCEPT !.stream = "done"]
    /\ UNCHANGED <<now, ticks, request_GET, attrs, form, usage_list, summary, limits,
                   quotas, call, hist>>

NextCsv == BuildCsvResponse \/ StreamStart \/ StreamRow \/ StreamEnd

SpecCsv == InitCsv /\ [][NextCsv]_vars

-----------------------------------------------------------------------------
(* Claims *)

FreshBefore == call.pre.attrs = NoAttrs /\ call.pre.form = NoForm

RequestBound == request_GET.start # None \/ request_GET.end # None

RequestValid == IsDate(request_GET.start) /\ IsDate(request_GET.end)

TodayRange == <<At(DateOf(call.today), 0, 0, 0), At(DateOf(call.today), 23, 59, 59)>>

\* C3: the first get_date_range on a fresh object returns the form's dates
\* (00:00:00 to 23:59:59) for a valid bound form, today's range with exactly
\* one 'Invalid date format' message for an invalid bound form, today's range
\* with no message for an unbound form; self.start, self.end are the pair.
C3_FirstDateRange ==
    (call.op = "get_date_range" /\ FreshBefore) =>
        /\ ~call.raised
        /\ (RequestBound /\ RequestValid) =>
              call.ret = <<At(request_GET.start, 0, 0, 0), At(request_GET.end, 23, 59, 59)>>
        /\ (RequestBound /\ ~RequestValid) =>
              (call.ret = TodayRange /\ call.msgs = <<"invalid_date_format">>)
        /\ ~RequestBound => (call.ret = TodayRange /\ call.msgs = <<>>)
        /\ attrs.has_start /\ attrs.has_end
        /\ <<attrs.start, attrs.end>> = call.ret

C3_Witness ==
    /\ call.op = "get_date_range" /\ FreshBefore
    /\ RequestBound /\ ~RequestValid
    /\ IsDate(request_GET.start)

\* C7: init_form returns (first, last day of the previous month) on days 1-4,
\* December of the previous year in January, and (first day of this month,
\* today) from day 5 on; start is a first of month, start <= end, same month.
C7_InitForm ==
    call.op = "init_form" =>
        LET today == DateOf(call.today)
            s == call.ret[1]
            e == call.ret[2]
            py == IF today[2] = 1 THEN today[1] - 1 ELSE today[1]
            pm == IF today[2] = 1 THEN 12 ELSE today[2] - 1
        IN /\ today[3] \in {1, 2, 3, 4} =>
                (s = <<py, pm, 1>> /\ e = <<py, pm, DaysInMonth(py, pm)>>)
           /\ today[3] >= 5 => (s = <<today[1], today[2], 1>> /\ e = today)
           /\ s[3] = 1 /\ Le(s, e) /\ s[1] = e[1] /\ s[2] = e[2]
           /\ attrs.start = s /\ attrs.end = e

C7_Witness ==
    /\ call.op = "init_form"
    /\ DateOf(call.today) = <<BaseYear + 1, 1, 4>>
    /\ call.ret = << <<BaseYear, 12, 1>>, <<BaseYear, 12, 31>> >>

\* C9: every get_date_range call completes without raising and returns the
\* pair the first get_date_range call on the object returned.
C9_Repeatable ==
    call.op = "get_date_range" => (~call.raised /\ call.ret = hist.first_range)

\* C10: the dates in the link csv_link returns are the calendar dates of the
\* pair get_date_range returns on the same object, in either order of calls.
C10_LinkNamesRange ==
    (hist.last_link # None /\ hist.last_range # None) =>
        hist.last_link = <<DateOf(hist.last_range[1]), DateOf(hist.last_range[2])>>

\* the sum of get_summary()[k] over the records of a usage list
RECURSIVE SumKey(_, _)
SumKey(ul, k) ==
    IF ul = <<>> THEN 0
    ELSE (IF k \in DOMAIN Head(ul) THEN Head(ul)[k] ELSE 0) + SumKey(Tail(ul), k)

KeysOf(ul) == UNION {DOMAIN ul[i] : i \in 1..Len(ul)}

Fetched(c) == c.ret # <<>>

\* C1: summarize(start, end) calls the usage API iff start <= end and
\* start <= today; otherwise it makes no API call, leaves usage_list as it
\* was and emits exactly one message: 'end before start' when end < start,
\* else 'future'; a call that fetches emits no guard message.
C1_SummarizeGuard ==
    [][call'.op = "summarize" =>
        LET s == call'.args.start
            e == call'.args.end
            t == call'.today
        IN /\ Fetched(call') <=> (Le(s, e) /\ Le(s, t))
           /\ Fetched(call') => (call'.ret = << <<s, e>> >> /\ call'.msgs = <<>>)
           /\ Lt(e, s) =>
                (~Fetched(call') /\ usage_list' = usage_list
                 /\ call'.msgs = <<"end_before_start">>)
           /\ (~Lt(e, s) /\ Lt(t, s)) =>
                (~Fetched(call') /\ usage_list' = usage_list /\ call'.msgs = <<"future">>)
      ]_vars

C1_Witness ==
    /\ call.op = "summarize"
    /\ Le(call.args.start, call.args.end) /\ Lt(call.today, call.args.start)
    /\ call.msgs = <<"future">>
    /\ usage_list # <<>>

\* C2: after every summarize call, whatever calls came before, summary[k] is
\* the sum of get_summary()[k] over the records now in usage_list, and summary
\* has no key that none of these records has.
C2_FlatSummation ==
    call.op = "summarize" =>
        /\ DOMAIN summary = KeysOf(usage_list)
        /\ \A k \in DOMAIN summary : summary[k] = SumKey(usage_list, k)

NeutronKeys ==
    {"totalFloatingIpsUsed", "totalSecurityGroupsUsed", "maxTotalFloatingIps",
     "maxSecurityGroups"}

\* the entries of a dict outside a set of keys
Without(d, keys) == [k \in (DOMAIN d) \ keys |-> d[k]]

Count(seq, x) == Cardinality({i \in 1..Len(seq) : seq[i] = x})

QuotasFailureHandled ==
    (call'.op = "get_quotas" /\ call'.args.api.raises) =>
        /\ ~call'.raised
        /\ call'.handled = <<"quota_information">>
        /\ quotas' = quotas

SummarizeFailureHandled ==
    (call'.op = "summarize" /\ Fetched(call') /\ call'.args.api.raises) =>
        /\ ~call'.raised
        /\ call'.handled = <<"usage_information">>
        /\ usage_list' = usage_list
        \* the aggregation loop ran over the list that was kept
        /\ DOMAIN summary' = (DOMAIN summary) \cup KeysOf(usage_list)
        /\ \A k \in DOMAIN summary' :
              summary'[k] = (IF k \in DOMAIN summary THEN summary[k] ELSE 0)
                            + SumKey(usage_list, k)

LimitsFailureReported ==
    /\ ~call'.raised
    /\ Count(call'.handled, "limit_information") = 1
    \* get_neutron_limits ran: its entries are there when the network is enabled
    /\ call'.args.env.network => "maxTotalFloatingIps" \in DOMAIN limits'

LimitsFailure == call'.op = "get_limits" /\ call'.args.api.raises

\* C4 as stated: a failing external call of get_limits, get_quotas or
\* summarize is caught, reported once, the attribute keeps the value it had
\* before the call, and the operation runs to its end.
C4_FailureKeepsValue ==
    [][/\ LimitsFailure => (LimitsFailureReported /\ limits' = limits)
       /\ QuotasFailureHandled
       /\ SummarizeFailureHandled
      ]_vars

\* C4 amended: as C4, but after a failing get_limits self.limits is the dict
\* it was with the entries get_neutron_limits writes set in it: every other
\* entry is kept, and the whole dict is kept when the network is not enabled.
C4_FailureKeepsAssignment ==
    [][/\ LimitsFailure =>
            /\ LimitsFailureReported
            /\ Without(limits', NeutronKeys) = Without(limits, NeutronKeys)
            /\ ~call'.args.env.network => limits' = limits
       /\ QuotasFailureHandled
       /\ SummarizeFailureHandled
      ]_vars

C4_Witness ==
    /\ call.op = "get_limits" /\ call.args.api.raises /\ call.args.env.network
    /\ "maxTotalInstances" \in DOMAIN limits
    /\ quotas # EmptyDict
    /\ usage_list # <<>>

\* the limit Neutron's quota API gives for a resource, infinity in the four
\* cases of the claim
ExpectedMax(env, resource) ==
    IF \/ ~env.quotas_ext
       \/ env.quota.raises
       \/ resource \notin DOMAIN env.quota.value.items
    THEN Inf
    ELSE IF env.quota.value.items[resource] = -1 THEN Inf
    ELSE Num(env.quota.value.items[resource])

Ids(server_usages) == [i \in 1..Len(server_usages) |-> server_usages[i].id]

KeptByClaim(su) == su.ended_at = None \/ ShowTerminated(request_GET)

\* C8: get_usage_list returns a 1-tuple holding the usage, whose
\* server_usages are the records of the API with ended_at empty or
\* show_terminated truthy, in their order; an empty list when the API result
\* has no server_usages.
C8_UsageFilter ==
    call.op = "get_usage_list" =>
        LET usage == call.args.usage
            kept == call.ret[1].server_usages
        IN /\ Len(call.ret) = 1
           /\ ~usage.has_server_usages => kept = <<>>
           /\ usage.has_server_usages =>
                 /\ Ids(kept) = Ids(SelectSeq(usage.server_usages, KeptByClaim))
                 /\ \A i \in 1..Len(kept) :
                       LET su == usage.server_usages[kept[i].id] IN
                       kept[i].ended_at = su.ended_at /\ kept[i].uptime = su.uptime

C8_Witness ==
    /\ call.op = "get_usage_list"
    /\ request_GET.show_terminated = <<"False">>
    /\ Len(call.args.usage.server_usages) = 2
    /\ Len(call.ret[1].server_usages) = 2
    /\ call.ret[1].server_usages[2].ended_at # None

RECURSIVE Flatten(_)
Flatten(chunks) == IF chunks = <<>> THEN <<>> ELSE Head(chunks) \o Flatten(Tail(chunks))

\* the cells of a row as the claim has them: one per column when columns
\* are defined (the row's i-th value under the i-th column), else one per value
ExpectedCells(r, row) ==
    IF r.is_dict
    THEN [i \in 1..Len(r.columns) |-> IF i <= Len(row) THEN encode(row[i]) ELSE ""]
    ELSE [i \in 1..Len(row) |-> encode(row[i])]

RECURSIVE ExpectedRows(_, _)
ExpectedRows(r, rows) ==
    IF rows = <<>> THEN <<>>
    ELSE RowLine(ExpectedCells(r, Head(rows))) \o ExpectedRows(r, Tail(rows))

ExpectedContent(r) ==
    (IF r.header # None /\ r.header # <<"">> THEN r.header ELSE <<>>)
    \o (IF r.is_dict THEN RowLine([i \in 1..Len(r.columns) |-> encode(r.columns[i])])
        ELSE <<>>)
    \o ExpectedRows(r, r.rows)

\* C5: the chunks of the streaming response, concatenated, are the content of
\* the plain response: the header (when it renders non-empty), the column
\* titles (when columns are defined), one line per row in order; there are
\* 1 + (number of rows) chunks and the buffer is empty after each chunk.
C5_StreamEqualsContent ==
    /\ csv.out.buf = <<>> /\ csv.out.pos = 0
    /\ csv.stream = "rows" => Len(csv.chunks) = csv.next_row
    /\ csv.built => csv.content = ExpectedContent(csv.inputs)
    /\ csv.stream = "done" =>
          /\ Len(csv.chunks) = 1 + Len(csv.inputs.rows)
          /\ Flatten(csv.chunks) = ExpectedContent(csv.inputs)
          /\ csv.built => Flatten(csv.chunks) = csv.content

C5_Witness ==
    /\ csv.stream = "done" /\ csv.built
    /\ Len(csv.inputs.rows) = 2
    /\ csv.inputs.is_dict /\ Len(csv.inputs.columns) = 2
    /\ csv.inputs.header = <<"Usage Report\n">>
    /\ Len(csv.content) > 8

====
